---- MODULE Spec2Model ----
(***************************************************************************)
(* Model of the OCR inference driver of src/src/inference.py:              *)
(*   - inference(): the greedy autoregressive decode loop,                 *)
(*   - draw_bboxes(): the first pass over the detected regions,            *)
(*   - main(): startup, the per-image loop with its try/except, the sort   *)
(*     of the detections, the second pass over the regions and the export. *)
(* Coordinates of detected polygons are kept in half pixels (the raw value *)
(* r stands for the float r/2), so that int() is a real truncation.        *)
(***************************************************************************)
EXTENDS Integers, Sequences, FiniteSets, TLC

VARIABLES
    pc,                   \* position of main(): startup steps, loop steps, "aborted", "exit"
    startupFailed,        \* an exception was raised by one of the startup statements
    image_files,          \* the listing main iterates over: sequence of extensions
    fi,                   \* 1-based index of the file of the current loop iteration
    attempts,             \* indices of the files whose try block was entered, in order
    detected_bboxes,      \* sorted detections of the current image
    readtext_out,         \* what reader.readtext returned, before the sort
    ri,                   \* 1-based index of the region the current pass is at
    all_bboxes,           \* draw_bboxes: the integer polygons collected so far
    predicted_transcripts,\* draw_bboxes: transcripts collected so far
    results,              \* main: rows collected for the record file
    drawCrops,            \* the crop cut for each region visited by draw_bboxes
    mainCrops,            \* the crop cut for each region visited by main's loop
    decodeLog,            \* every call of inference() for the current image
    annotated,            \* per file: the annotated image was saved
    csv,                  \* per file: state of the record file, "none" | "partial" | "full"
    csvRows,              \* rows written to the record file of the current image
    csvOpens,             \* per file: how often the record file was opened for writing
    failSite,             \* per file: statement group whose exception reached the handler
    detectorCalled,       \* reader.readtext was called at least once
    decodeCalled,         \* inference() was called at least once
    src,                  \* decode loop: the input of one inference() call
    out_indexes,          \* decode loop: the accumulated index sequence
    di,                   \* decode loop: iterations started so far
    dcalls,               \* decode loop: invocations of the model so far
    dpc,                  \* decode loop position: "idle" | "loop" | "after_loop" | "done" | "raised"
    handed,               \* decode loop: the indices passed to labels_to_text
    transcript            \* decode loop: the returned transcript

mainVars == <<pc, startupFailed, image_files, fi, attempts, detected_bboxes, readtext_out,
              ri, all_bboxes, predicted_transcripts, results, drawCrops, mainCrops,
              decodeLog, annotated, csv, csvRows, csvOpens, failSite, detectorCalled,
              decodeCalled>>
decodeVars == <<src, out_indexes, di, dcalls, dpc, handed, transcript>>
vars == <<mainVars, decodeVars>>

----------------------------------------------------------------------------
(* Bounds of the model *)

NumFiles == 2
MaxRegions == 2

(* for i in range(100) *)
MaxSteps == 100

----------------------------------------------------------------------------
(* Vocabulary: hp.cyrillic, enumerated from 0 by char2idx / idx2char *)

Cyrillic == <<"PAD", "SOS", "a", "b", "EOS">>

char2idx(c) == (CHOOSE i \in 1..Len(Cyrillic) : Cyrillic[i] = c) - 1

idx2char(i) == Cyrillic[i + 1]

Indices == 0..(Len(Cyrillic) - 1)

----------------------------------------------------------------------------
(* The decode loop of inference() *)

(* What the pair (model, input tensor) answers: the argmax of the last
   position given the sequence so far.  A behaviour b emits the end sentinel
   once b.eosAt symbols were produced and otherwise follows the pattern
   b.pat; "sos" makes the model emit the start sentinel in mid-sequence. *)
ModelArgmax(b, trg) ==
    IF Len(trg) - 1 >= b.eosAt THEN char2idx("EOS")
    ELSE IF b.pat = "sos" THEN char2idx("SOS")
    ELSE IF b.pat = "ab" /\ Len(trg) % 2 = 0 THEN char2idx("b")
    ELSE char2idx("a")

Behaviours ==
    [eosAt : {0, 1, 2, MaxSteps - 1, MaxSteps, MaxSteps + 1}, pat : {"a", "ab", "sos"}]

(* out_indexes = [char2idx['SOS'], ] *)
StartIndexes == <<char2idx("SOS")>>

LoopOffByOne(i) == i < MaxSteps + 1
(* for i in range(100): whether iteration number i (from 0) is run *)
LoopRuns(i) == i < MaxSteps

NeverBreaks(out_token) == FALSE
(* if out_token == char2idx['EOS']: break *)
Breaks(out_token) == out_token = char2idx("EOS")

(* output = model(src, trg_tensor); out_token = output.argmax(2)[-1].item();
   out_indexes.append(out_token) *)
LoopBody(b, trg) == Append(trg, ModelArgmax(b, trg))

(* labels_to_text: the characters up to, and excluding, the end sentinel *)
labels_to_text(s) ==
    LET ends == {k \in 1..Len(s) : s[k] = char2idx("EOS")}
        n == IF ends = {} THEN Len(s) ELSE (CHOOSE k \in ends : \A j \in ends : k <= j) - 1
    IN [i \in 1..n |-> idx2char(s[i])]

(* out_indexes[1:] *)
DropFirst(s) == IF s = <<>> THEN <<>> ELSE Tail(s)

(* The whole loop, run to its end, for the callers of inference() *)
RECURSIVE RunLoop(_, _, _)
RunLoop(b, trg, i) ==
    IF ~LoopRuns(i) THEN trg
    ELSE LET nxt == LoopBody(b, trg)
         IN IF Breaks(nxt[Len(nxt)]) THEN nxt ELSE RunLoop(b, nxt, i + 1)

InferenceResult(b) == labels_to_text(DropFirst(RunLoop(b, StartIndexes, 0)))

(* One iteration of the loop: lines 64-69 *)
DecodeStep ==
    /\ dpc = "loop"
    /\ LoopRuns(di)
    /\ out_indexes' = LoopBody(src, out_indexes)
    /\ dcalls' = dcalls + 1
    /\ di' = di + 1
    /\ dpc' = IF Breaks(out_indexes'[Len(out_indexes')]) THEN "after_loop" ELSE "loop"
    /\ UNCHANGED <<src, handed, transcript>>
    /\ UNCHANGED mainVars

(* The model call of an iteration raises: the exception leaves inference() *)
DecodeRaise ==
    /\ dpc = "loop"
    /\ LoopRuns(di)
    /\ dcalls' = dcalls + 1
    /\ di' = di + 1
    /\ dpc' = "raised"
    /\ UNCHANGED <<src, out_indexes, handed, transcript>>
    /\ UNCHANGED mainVars

(* range(100) is exhausted *)
DecodeExhausted ==
    /\ dpc = "loop"
    /\ ~LoopRuns(di)
    /\ dpc' = "after_loop"
    /\ UNCHANGED <<src, out_indexes, di, dcalls, handed, transcript>>
    /\ UNCHANGED mainVars

(* predicted_transcript = labels_to_text(out_indexes[1:], idx2char); return *)
DecodeFinish ==
    /\ dpc = "after_loop"
    /\ handed' = DropFirst(out_indexes)
    /\ transcript' = labels_to_text(handed')
    /\ dpc' = "done"
    /\ UNCHANGED <<src, out_indexes, di, dcalls>>
    /\ UNCHANGED mainVars

DecodeNext == DecodeStep \/ DecodeRaise \/ DecodeExhausted \/ DecodeFinish

----------------------------------------------------------------------------
(* Geometry: polygons, truncation, slices *)

(* The source image: img.shape = (rows, columns, channels) *)
ImgShape == <<6, 6, 3>>

(* int(x) of a float: truncation toward zero; r is x in half pixels *)
IntOf(r) == IF r >= 0 THEN r \div 2 ELSE -((-r) \div 2)

(* [tuple(map(int, pt)) for pt in bbox]
   [[int(coordinate) for coordinate in point] for point in bbox] *)
IntPts(bbox) == [i \in 1..Len(bbox) |-> <<IntOf(bbox[i][1]), IntOf(bbox[i][2])>>]

Max2(a, b) == IF a >= b THEN a ELSE b
Min2(a, b) == IF a <= b THEN a ELSE b

(* numpy's reading of one slice bound against an axis of length n *)
NormIdx(i, n) == IF i < 0 THEN Max2(i + n, 0) ELSE Min2(i, n)

(* image[lo_y:hi_y, lo_x:hi_x]: the rows and columns the slice holds *)
SliceImage(lo_y, hi_y, lo_x, hi_x) ==
    [r0 |-> NormIdx(lo_y, ImgShape[1]), r1 |-> NormIdx(hi_y, ImgShape[1]),
     c0 |-> NormIdx(lo_x, ImgShape[2]), c1 |-> NormIdx(hi_x, ImgShape[2])]

Rows(crop) == Max2(crop.r1 - crop.r0, 0)
Cols(crop) == Max2(crop.c1 - crop.c0, 0)

(* ndarray.size *)
Size(crop) == Rows(crop) * Cols(crop) * ImgShape[3]

AlwaysNonEmpty(crop) == TRUE
(* if extracted_image.size > 0 / if cropped_img.size > 0 *)
NonEmpty(crop) == Size(crop) > 0

MinOf(S) == CHOOSE m \in S : \A x \in S : m <= x
MaxOf(S) == CHOOSE m \in S : \A x \in S : m >= x

Xs(pts) == {pts[i][1] : i \in 1..Len(pts)}
Ys(pts) == {pts[i][2] : i \in 1..Len(pts)}

(* draw_bboxes: x_min, y_min = np.min(pts, axis=0)[0]; x_max, y_max = np.max(...)[0];
   extracted_image = image[y_min:y_max, x_min:x_max] *)
MinMaxCrop(pts) == SliceImage(MinOf(Ys(pts)), MaxOf(Ys(pts)), MinOf(Xs(pts)), MaxOf(Xs(pts)))

(* main: cropped_img = img[bbox[0][1]:bbox[2][1], bbox[0][0]:bbox[2][0]] *)
CornerCrop(pts) == SliceImage(pts[1][2], pts[3][2], pts[1][1], pts[3][1])

(* The polygons the detector may return, vertices <<x, y>> in half pixels *)
Polys == <<
    << <<2, 2>>, <<8, 2>>, <<8, 6>>, <<2, 6>> >>,     \* box, top-left vertex first
    << <<8, 6>>, <<2, 6>>, <<2, 2>>, <<8, 2>> >>,     \* the same box, bottom-right vertex first
    << <<6, 2>>, <<6, 2>>, <<6, 6>>, <<6, 6>> >>,     \* zero width
    << <<2, 4>>, <<6, 4>>, <<6, 5>>, <<2, 5>> >>,     \* half a pixel high: zero height as integers
    << <<0, 0>>, <<6, 0>>, <<6, 4>>, <<-3, 4>> >>,    \* one vertex left of the image
    << <<4, 0>>, <<8, 4>>, <<4, 8>>, <<0, 4>> >>      \* rotated box (diamond)
  >>

(* One element of reader.readtext's list: (bbox, label, score); the label is
   unpacked and never read.  det_index records the position in the detector's
   list, to tell equal detections apart. *)
Region(p, i) == [bbox |-> Polys[p], score |-> 10 * p, det_index |-> i]

Detections ==
    UNION {{[i \in 1..n |-> Region(f[i], i)] : f \in [1..n -> 1..Len(Polys)]} : n \in 0..MaxRegions}

----------------------------------------------------------------------------
(* The reading-order sort *)

RECURSIVE SumSeq(_)
SumSeq(s) == IF s = <<>> THEN 0 ELSE Head(s) + SumSeq(Tail(s))

SumY(bbox) == SumSeq([i \in 1..Len(bbox) |-> bbox[i][2]])
SumX(bbox) == SumSeq([i \in 1..Len(bbox) |-> bbox[i][1]])

(* np.mean(a) < np.mean(b), compared exactly *)
MeanLess(sa, na, sb, nb) == sa * nb < sb * na
MeanEq(sa, na, sb, nb) == sa * nb = sb * na

KeyLessXFirst(a, b) ==
    \/ MeanLess(SumX(a.bbox), Len(a.bbox), SumX(b.bbox), Len(b.bbox))
    \/ /\ MeanEq(SumX(a.bbox), Len(a.bbox), SumX(b.bbox), Len(b.bbox))
       /\ MeanLess(SumY(a.bbox), Len(a.bbox), SumY(b.bbox), Len(b.bbox))
(* key=lambda bbox: (np.mean([pt[1] for pt in bbox[0]]), np.mean([pt[0] for pt in bbox[0]])):
   tuple comparison of the keys of a and b *)
KeyLess(a, b) ==
    \/ MeanLess(SumY(a.bbox), Len(a.bbox), SumY(b.bbox), Len(b.bbox))
    \/ /\ MeanEq(SumY(a.bbox), Len(a.bbox), SumY(b.bbox), Len(b.bbox))
       /\ MeanLess(SumX(a.bbox), Len(a.bbox), SumX(b.bbox), Len(b.bbox))

(* list.sort is stable: e goes behind every element whose key is not greater *)
RECURSIVE InsertStable(_, _)
InsertStable(s, e) ==
    IF s = <<>> THEN <<e>>
    ELSE IF KeyLess(e, Head(s)) THEN <<e>> \o s
    ELSE <<Head(s)>> \o InsertStable(Tail(s), e)

RECURSIVE SortFrom(_, _)
SortFrom(done, rest) ==
    IF rest = <<>> THEN done ELSE SortFrom(InsertStable(done, Head(rest)), Tail(rest))

(* detected_bboxes.sort(key=...) *)
SortDetections(d) == SortFrom(<<>>, d)

----------------------------------------------------------------------------
(* main() *)

IsImage(ext) == ext \in {"png", "jpg", "jpeg"}

Listings == [1..NumFiles -> {"png", "txt"}]

StartupOrder == <<"load_config", "make_reader", "make_model", "load_weights", "list_files">>

StartupPos(p) == CHOOSE i \in 1..Len(StartupOrder) : StartupOrder[i] = p

(* process_image and the model on one crop: the longer the crop, the longer
   the text read from it *)
SrcOf(crop) == [eosAt |-> Cols(crop), pat |-> "ab"]

NoSrc == [eosAt |-> 0, pat |-> "a"]

Init ==
    /\ pc = "load_config"
    /\ startupFailed = FALSE
    /\ image_files = <<>>
    /\ fi = 1
    /\ attempts = <<>>
    /\ detected_bboxes = <<>>
    /\ readtext_out = <<>>
    /\ ri = 1
    /\ all_bboxes = <<>>
    /\ predicted_transcripts = <<>>
    /\ results = <<>>
    /\ drawCrops = <<>>
    /\ mainCrops = <<>>
    /\ decodeLog = <<>>
    /\ annotated = [i \in 1..NumFiles |-> FALSE]
    /\ csv = [i \in 1..NumFiles |-> "none"]
    /\ csvRows = <<>>
    /\ csvOpens = [i \in 1..NumFiles |-> 0]
    /\ failSite = [i \in 1..NumFiles |-> "none"]
    /\ detectorCalled = FALSE
    /\ decodeCalled = FALSE
    /\ src = NoSrc
    /\ out_indexes = <<>>
    /\ di = 0
    /\ dcalls = 0
    /\ dpc = "idle"
    /\ handed = <<>>
    /\ transcript = <<>>

perImage == <<detected_bboxes, readtext_out, ri, all_bboxes, predicted_transcripts, results,
              drawCrops, mainCrops, decodeLog, csvRows>>
outputs == <<annotated, csv, csvOpens>>

(* The statements before the loop, lines 155-175, when they succeed *)
StartupOk ==
    /\ pc \in {StartupOrder[i] : i \in 1..Len(StartupOrder)}
    /\ IF pc = "list_files"
       THEN /\ \E l \in Listings : image_files' = l
            /\ pc' = "next_file"
       ELSE /\ pc' = StartupOrder[StartupPos(pc) + 1]
            /\ UNCHANGED image_files
    /\ UNCHANGED <<startupFailed, fi, attempts, failSite, detectorCalled, decodeCalled>>
    /\ UNCHANGED perImage
    /\ UNCHANGED outputs
    /\ UNCHANGED decodeVars

StartupRaiseIgnored ==
    /\ pc \in {StartupOrder[i] : i \in 1..Len(StartupOrder)}
    /\ startupFailed' = TRUE
    /\ IF pc = "list_files"
       THEN /\ \E l \in Listings : image_files' = l
            /\ pc' = "next_file"
       ELSE /\ pc' = StartupOrder[StartupPos(pc) + 1]
            /\ UNCHANGED image_files
    /\ UNCHANGED <<fi, attempts, failSite, detectorCalled, decodeCalled>>
    /\ UNCHANGED perImage
    /\ UNCHANGED outputs
    /\ UNCHANGED decodeVars
(* One of them raises: no handler encloses lines 155-175, the process ends *)
StartupRaise ==
    /\ pc \in {StartupOrder[i] : i \in 1..Len(StartupOrder)}
    /\ startupFailed' = TRUE
    /\ pc' = "aborted"
    /\ UNCHANGED <<image_files, fi, attempts, failSite, detectorCalled, decodeCalled>>
    /\ UNCHANGED perImage
    /\ UNCHANGED outputs
    /\ UNCHANGED decodeVars

(* for image_path in image_files: if image_path.lower().endswith(...): try: *)
NextFile ==
    /\ pc = "next_file"
    /\ IF fi > Len(image_files)
       THEN pc' = "exit" /\ UNCHANGED <<fi, attempts>>
       ELSE IF ~IsImage(image_files[fi])
            THEN pc' = "next_file" /\ fi' = fi + 1 /\ UNCHANGED attempts
            ELSE pc' = "detect" /\ attempts' = Append(attempts, fi) /\ UNCHANGED fi
    /\ UNCHANGED <<startupFailed, image_files, failSite, detectorCalled, decodeCalled>>
    /\ UNCHANGED perImage
    /\ UNCHANGED outputs
    /\ UNCHANGED decodeVars

(* img = mpimg.imread(...); detected_bboxes = reader.readtext(...);
   detected_bboxes.sort(...); entry of draw_bboxes *)
Detect ==
    /\ pc = "detect"
    /\ \/ /\ \E called \in BOOLEAN : detectorCalled' = (detectorCalled \/ called)
          /\ failSite' = [failSite EXCEPT ![fi] = "detect"]
          /\ pc' = "except"
          /\ UNCHANGED perImage
       \/ /\ \E d \in Detections :
                /\ readtext_out' = d
                /\ detected_bboxes' = SortDetections(d)
          /\ detectorCalled' = TRUE
          /\ ri' = 1
          /\ all_bboxes' = <<>>
          /\ predicted_transcripts' = <<>>
          /\ pc' = "draw"
          /\ UNCHANGED <<failSite, results, drawCrops, mainCrops, decodeLog, csvRows>>
    /\ UNCHANGED <<startupFailed, image_files, fi, attempts, decodeCalled>>
    /\ UNCHANGED outputs
    /\ UNCHANGED decodeVars

(* What one iteration over a region leads to: the geometry statements raise
   before the crop is cut; or the call of inference returns or raises; or the
   crop is empty and the call is not made *)
Outcomes(crop) == {"geom_raise"} \cup (IF NonEmpty(crop) THEN {"ok", "raise"} ELSE {"skip"})

Raised(o) == o \in {"geom_raise", "raise"}

AfterRegionIsolated(o, pass) == pass
(* Neither region loop has a handler of its own: an exception of inference()
   leaves the loop for the except clause of line 219 *)
AfterRegion(o, pass) == IF Raised(o) THEN "except" ELSE pass

LogCall(o, pass, crop) ==
    IF o \in {"skip", "geom_raise"} THEN decodeLog
    ELSE Append(decodeLog, [pass |-> pass, ri |-> ri, crop |-> crop, outcome |-> o])

(* One iteration of the loop of draw_bboxes, lines 109-129 *)
DrawRegion ==
    /\ pc = "draw"
    /\ ri <= Len(detected_bboxes)
    /\ LET pts == IntPts(detected_bboxes[ri].bbox)
           extracted_image == MinMaxCrop(pts)
       IN \E o \in Outcomes(extracted_image) :
            /\ all_bboxes' = IF o = "geom_raise" THEN all_bboxes ELSE Append(all_bboxes, pts)
            /\ drawCrops' =
                 IF o = "geom_raise" THEN drawCrops ELSE Append(drawCrops, extracted_image)
            /\ decodeLog' = LogCall(o, "draw", extracted_image)
            /\ decodeCalled' = (decodeCalled \/ o \in {"ok", "raise"})
            /\ predicted_transcripts' =
                 IF o = "ok"
                 THEN Append(predicted_transcripts, InferenceResult(SrcOf(extracted_image)))
                 ELSE predicted_transcripts
            /\ failSite' = IF Raised(o) THEN [failSite EXCEPT ![fi] = "draw"] ELSE failSite
            /\ pc' = AfterRegion(o, "draw")
            /\ ri' = IF pc' = "except" THEN ri ELSE ri + 1
    /\ UNCHANGED <<startupFailed, image_files, fi, attempts, detected_bboxes, readtext_out,
                   results, mainCrops, csvRows, detectorCalled>>
    /\ UNCHANGED outputs
    /\ UNCHANGED decodeVars

(* return image_copy, all_bboxes, predicted_transcripts *)
DrawReturn ==
    /\ pc = "draw"
    /\ ri > Len(detected_bboxes)
    /\ pc' = "save"
    /\ UNCHANGED <<startupFailed, image_files, fi, attempts, failSite, detectorCalled,
                   decodeCalled>>
    /\ UNCHANGED perImage
    /\ UNCHANGED outputs
    /\ UNCHANGED decodeVars

(* plt.figure; plt.imshow; plt.savefig(..._bbox.png); results = [] *)
SaveFigure ==
    /\ pc = "save"
    /\ \/ /\ annotated' = [annotated EXCEPT ![fi] = TRUE]
          /\ pc' = "records"
          /\ ri' = 1
          /\ results' = <<>>
          /\ UNCHANGED failSite
       \/ /\ failSite' = [failSite EXCEPT ![fi] = "save"]
          /\ pc' = "except"
          /\ UNCHANGED <<annotated, ri, results>>
    /\ UNCHANGED <<startupFailed, image_files, fi, attempts, detected_bboxes, readtext_out,
                   all_bboxes, predicted_transcripts, drawCrops, mainCrops, decodeLog,
                   csv, csvRows, csvOpens, detectorCalled, decodeCalled>>
    /\ UNCHANGED decodeVars

(* One iteration of the loop of main, lines 202-210 *)
RecordRegion ==
    /\ pc = "records"
    /\ ri <= Len(detected_bboxes)
    /\ LET bbox == IntPts(detected_bboxes[ri].bbox)
           cropped_img == CornerCrop(bbox)
       IN \E o \in Outcomes(cropped_img) :
            /\ mainCrops' =
                 IF o = "geom_raise" THEN mainCrops ELSE Append(mainCrops, cropped_img)
            /\ decodeLog' = LogCall(o, "records", cropped_img)
            /\ decodeCalled' = (decodeCalled \/ o \in {"ok", "raise"})
            /\ results' =
                 IF o = "ok"
                 THEN Append(results, [bbox_coords |-> bbox,
                                       bbox_confidence |-> detected_bboxes[ri].score,
                                       predicted_labels |-> InferenceResult(SrcOf(cropped_img))])
                 ELSE results
            /\ failSite' = IF Raised(o) THEN [failSite EXCEPT ![fi] = "records"] ELSE failSite
            /\ pc' = AfterRegion(o, "records")
            /\ ri' = IF pc' = "except" THEN ri ELSE ri + 1
    /\ UNCHANGED <<startupFailed, image_files, fi, attempts, detected_bboxes, readtext_out,
                   all_bboxes, predicted_transcripts, drawCrops, csvRows, detectorCalled>>
    /\ UNCHANGED outputs
    /\ UNCHANGED decodeVars

(* with open(..._all_bboxes.csv, 'w') as f: writerow(header); writerows(results) *)
Export ==
    /\ pc = "records"
    /\ ri > Len(detected_bboxes)
    /\ \/ /\ failSite' = [failSite EXCEPT ![fi] = "export"]      \* open raises
          /\ pc' = "except"
          /\ UNCHANGED <<csv, csvRows, csvOpens>>
       \/ /\ failSite' = [failSite EXCEPT ![fi] = "export"]      \* a write raises
          /\ csvOpens' = [csvOpens EXCEPT ![fi] = @ + 1]
          /\ csv' = [csv EXCEPT ![fi] = "partial"]
          /\ pc' = "except"
          /\ UNCHANGED csvRows
       \/ /\ csvOpens' = [csvOpens EXCEPT ![fi] = @ + 1]
          /\ csv' = [csv EXCEPT ![fi] = "full"]
          /\ csvRows' = results
          /\ pc' = "iter_end"
          /\ UNCHANGED failSite
    /\ UNCHANGED <<startupFailed, image_files, fi, attempts, detected_bboxes, readtext_out, ri,
                   all_bboxes, predicted_transcripts, results, drawCrops, mainCrops,
                   decodeLog, annotated, detectorCalled, decodeCalled>>
    /\ UNCHANGED decodeVars

(* The names of one iteration are bound anew by the next one *)
ForgetImage ==
    /\ detected_bboxes' = <<>>
    /\ readtext_out' = <<>>
    /\ ri' = 1
    /\ all_bboxes' = <<>>
    /\ predicted_transcripts' = <<>>
    /\ results' = <<>>
    /\ drawCrops' = <<>>
    /\ mainCrops' = <<>>
    /\ decodeLog' = <<>>
    /\ csvRows' = <<>>

(* The try block ended without an exception: on to the next file *)
LoopBack ==
    /\ pc = "iter_end"
    /\ pc' = "next_file"
    /\ fi' = fi + 1
    /\ ForgetImage
    /\ UNCHANGED <<startupFailed, image_files, attempts, failSite, detectorCalled, decodeCalled>>
    /\ UNCHANGED outputs
    /\ UNCHANGED decodeVars

HandleExceptionRaises ==
    /\ pc = "except"
    /\ pc' = "exit"
    /\ UNCHANGED <<fi, startupFailed, image_files, attempts, failSite, detectorCalled,
                   decodeCalled>>
    /\ UNCHANGED perImage
    /\ UNCHANGED outputs
    /\ UNCHANGED decodeVars

HandleExceptionDumps ==
    /\ pc = "except"
    /\ pc' = "next_file"
    /\ fi' = fi + 1
    /\ csv' = [csv EXCEPT ![fi] = "full"]
    /\ csvOpens' = [csvOpens EXCEPT ![fi] = @ + 1]
    /\ ForgetImage
    /\ UNCHANGED <<startupFailed, image_files, attempts, failSite, detectorCalled,
                   decodeCalled, annotated>>
    /\ UNCHANGED decodeVars
(* except Exception as e: print(...); traceback.print_exc(); on to the next file *)
HandleException ==
    /\ pc = "except"
    /\ pc' = "next_file"
    /\ fi' = fi + 1
    /\ ForgetImage
    /\ UNCHANGED <<startupFailed, image_files, attempts, failSite, detectorCalled, decodeCalled>>
    /\ UNCHANGED outputs
    /\ UNCHANGED decodeVars

Next ==
    \/ StartupOk
    \/ StartupRaise
    \/ NextFile
    \/ Detect
    \/ DrawRegion
    \/ DrawReturn
    \/ SaveFigure
    \/ RecordRegion
    \/ Export
    \/ LoopBack
    \/ HandleException

Spec == Init /\ [][Next]_vars

----------------------------------------------------------------------------
(* One call of inference(), step by step, on every behaviour of the model *)

DecodeInit ==
    /\ pc = "decode"
    /\ startupFailed = FALSE
    /\ image_files = <<>>
    /\ fi = 1
    /\ attempts = <<>>
    /\ detected_bboxes = <<>>
    /\ readtext_out = <<>>
    /\ ri = 1
    /\ all_bboxes = <<>>
    /\ predicted_transcripts = <<>>
    /\ results = <<>>
    /\ drawCrops = <<>>
    /\ mainCrops = <<>>
    /\ decodeLog = <<>>
    /\ annotated = [i \in 1..NumFiles |-> FALSE]
    /\ csv = [i \in 1..NumFiles |-> "none"]
    /\ csvRows = <<>>
    /\ csvOpens = [i \in 1..NumFiles |-> 0]
    /\ failSite = [i \in 1..NumFiles |-> "none"]
    /\ detectorCalled = FALSE
    /\ decodeCalled = FALSE
    /\ src \in Behaviours
    /\ out_indexes = StartIndexes
    /\ di = 0
    /\ dcalls = 0
    /\ dpc = "loop"
    /\ handed = <<>>
    /\ transcript = <<>>

DecodeSpec == DecodeInit /\ [][DecodeNext]_vars

(* The loop is straight-line code: an enabled step is taken *)
DecodeFairSpec == DecodeSpec /\ WF_vars(DecodeNext)

----------------------------------------------------------------------------
(* Properties *)

Last(s) == s[Len(s)]

EOS == char2idx("EOS")
SOS == char2idx("SOS")

(* The regions' integer polygons of the current image *)
PtsOf(i) == IntPts(detected_bboxes[i].bbox)

ZeroBox(pts) == MinOf(Xs(pts)) = MaxOf(Xs(pts)) \/ MinOf(Ys(pts)) = MaxOf(Ys(pts))

LogIdx == 1..Len(decodeLog)

ImageEnded == pc \in {"iter_end", "except"}

(* C1: a region whose polygon has a bounding box of zero width or zero height
   is never handed to inference() (normalizer and model), neither by
   draw_bboxes nor by the record loop of main. *)
C1_ZeroBoxNeverDecoded ==
    \A k \in LogIdx :
        /\ decodeLog[k].pass \in {"draw", "records"}
        /\ ~ZeroBox(PtsOf(decodeLog[k].ri))

(* C1 witness: an image with a zero-width or zero-height region went through
   both passes. *)
C1_Witness ==
    /\ pc = "iter_end"
    /\ \E i \in 1..Len(detected_bboxes) :
          /\ ZeroBox(PtsOf(i))
          /\ i <= Len(drawCrops)
          /\ i <= Len(mainCrops)

(* C2: one call of inference invokes the model at most 100 times, the index
   sequence without its leading start sentinel never holds more than 100
   indices, and the call ends, with or without an end sentinel. *)
C2_BoundedAndTerminates ==
    /\ [](dcalls <= 100 /\ Len(DropFirst(out_indexes)) <= 100)
    /\ <>(dpc \in {"done", "raised"})

(* C2 witness: the call ended at the cap, no end sentinel selected. *)
C2_Witness ==
    /\ dpc = "done"
    /\ dcalls = 100
    /\ \A k \in 1..Len(out_indexes) : out_indexes[k] # EOS

(* C8: the sequence starts as the start sentinel alone; every step appends
   the argmax for the sequence before it; the end sentinel is only ever the
   last element and no model call follows it; without an end sentinel exactly
   100 indices go to the vocabulary mapping. *)
C8_DecodeLoopShape ==
    /\ Len(out_indexes) >= 1
    /\ out_indexes[1] = SOS
    /\ \A k \in 2..Len(out_indexes) :
          out_indexes[k] = ModelArgmax(src, SubSeq(out_indexes, 1, k - 1))
    /\ \A k \in 1..(Len(out_indexes) - 1) : out_indexes[k] # EOS
    /\ Last(out_indexes) = EOS => dpc \in {"after_loop", "done"}
    /\ dpc # "raised" => Len(out_indexes) = dcalls + 1
    /\ dpc = "done" =>
          /\ handed = Tail(out_indexes)
          /\ Last(out_indexes) # EOS => Len(handed) = 100

(* C8 witness: the loop was stopped by the end sentinel after two characters. *)
C8_Witness ==
    /\ dpc = "done"
    /\ Len(handed) = 3
    /\ Last(handed) = EOS
    /\ dcalls = 3

PassCrops(pass) == IF pass = "draw" THEN drawCrops ELSE mainCrops

RegionFailed == fi \in 1..NumFiles /\ failSite[fi] \in {"draw", "records"}

RECURSIVE ImageIdx(_)
ImageIdx(n) ==
    IF n = 0 THEN <<>>
    ELSE IF IsImage(image_files[n]) THEN Append(ImageIdx(n - 1), n) ELSE ImageIdx(n - 1)

(* C4: every image file of the listing is attempted exactly once, in listing
   order, whatever the earlier images raised, and an image whose processing
   raised nothing has its record file. *)
C4_ImagesIsolated ==
    /\ pc \in {"next_file", "exit"} => attempts = ImageIdx(fi - 1)
    /\ pc \in {"detect", "draw", "save", "records", "iter_end", "except"} =>
          attempts = ImageIdx(fi)
    /\ pc = "exit" =>
          /\ fi = Len(image_files) + 1
          /\ \A i \in 1..Len(image_files) :
                IsImage(image_files[i]) /\ failSite[i] = "none" => csv[i] = "full"

(* C4 witness: the first image failed and the second has its record file. *)
C4_Witness ==
    /\ pc = "exit"
    /\ failSite[1] # "none"
    /\ csv[2] = "full"

RECURSIVE NonEmptyBoxes(_)
NonEmptyBoxes(n) ==
    IF n = 0 THEN <<>>
    ELSE IF NonEmpty(MinMaxCrop(PtsOf(n))) THEN Append(NonEmptyBoxes(n - 1), PtsOf(n))
    ELSE NonEmptyBoxes(n - 1)

(* C5 as claimed: the records of an image are, in order, exactly the regions
   whose crop at the min/max bounding box of the polygon is non-empty. *)
C5_OneRecordPerNonEmptyCrop ==
    pc = "iter_end" =>
        [i \in 1..Len(csvRows) |-> csvRows[i].bbox_coords] = NonEmptyBoxes(Len(detected_bboxes))

C6_SumY(r) == SumSeq([i \in 1..Len(r.bbox) |-> r.bbox[i][2]])
C6_SumX(r) == SumSeq([i \in 1..Len(r.bbox) |-> r.bbox[i][1]])
C6_N(r) == Len(r.bbox)

(* C6: once an image is detected, and so before any of its regions is
   processed, detected_bboxes is a permutation of the detector's list in
   ascending order of (mean y, mean x), equal keys in the detector's order. *)
C6_ReadingOrder ==
    LET n == Len(detected_bboxes)
    IN /\ n = Len(readtext_out)
       /\ {detected_bboxes[i].det_index : i \in 1..n} = 1..n
       /\ \A i \in 1..n : detected_bboxes[i] = readtext_out[detected_bboxes[i].det_index]
       /\ \A i, j \in 1..n :
             i < j =>
                LET a == detected_bboxes[i]
                    b == detected_bboxes[j]
                    ya == C6_SumY(a) * C6_N(b)
                    yb == C6_SumY(b) * C6_N(a)
                    xa == C6_SumX(a) * C6_N(b)
                    xb == C6_SumX(b) * C6_N(a)
                IN /\ ya <= yb
                   /\ ya = yb => xa <= xb
                   /\ (ya = yb /\ xa = xb) => a.det_index < b.det_index

(* C6 witness: two regions of equal mean y were swapped on their mean x, and
   the first pass is about to start. *)
C6_Witness ==
    /\ pc = "draw"
    /\ ri = 1
    /\ Len(detected_bboxes) = 2
    /\ detected_bboxes # readtext_out
    /\ C6_SumY(detected_bboxes[1]) = C6_SumY(detected_bboxes[2])
    /\ C6_SumX(detected_bboxes[1]) < C6_SumX(detected_bboxes[2])

(* C7: a run whose startup raised calls no detector, decodes nothing and
   writes no output file. *)
C7_StartupFailureAborts ==
    startupFailed =>
        /\ pc = "aborted"
        /\ ~detectorCalled
        /\ ~decodeCalled
        /\ attempts = <<>>
        /\ \A i \in 1..NumFiles : ~annotated[i] /\ csv[i] = "none" /\ csvOpens[i] = 0

(* C7 witness: the process was aborted by a startup exception. *)
C7_Witness ==
    /\ pc = "aborted"
    /\ startupFailed

(* C9 as claimed: every crop handed to inference is the slice at the min/max
   bounding box of the integer polygon, and main cuts for each region the crop
   draw_bboxes cut for it. *)
C9_SameCropInBothPasses ==
    /\ \A k \in LogIdx : decodeLog[k].crop = MinMaxCrop(PtsOf(decodeLog[k].ri))
    /\ \A i \in 1..Len(mainCrops) :
          /\ NonEmpty(mainCrops[i]) = NonEmpty(drawCrops[i])
          /\ NonEmpty(mainCrops[i]) => mainCrops[i] = drawCrops[i]

RECURSIVE CountOk(_)
CountOk(n) ==
    IF n = 0 THEN 0
    ELSE CountOk(n - 1)
         + (IF decodeLog[n].pass = "records" /\ decodeLog[n].outcome = "ok" THEN 1 ELSE 0)

(* C10: the record file of an image is opened at most once, only after the
   annotated image was saved and both passes went through every region without
   an exception, and then holds all records; an exception before the export
   leaves the image without record file, also when the annotated image exists. *)
C10_RecordFileLastAndWhole ==
    /\ \A i \in 1..NumFiles :
          /\ csvOpens[i] <= 1
          /\ (csvOpens[i] = 0) = (csv[i] = "none")
          /\ csv[i] # "none" => annotated[i] /\ failSite[i] \in {"none", "export"}
          /\ failSite[i] \in {"detect", "draw", "save", "records"} => csv[i] = "none"
    /\ (ImageEnded /\ csv[fi] # "none") =>
          /\ Len(drawCrops) = Len(detected_bboxes)
          /\ Len(mainCrops) = Len(detected_bboxes)
          /\ \A k \in LogIdx : decodeLog[k].outcome = "ok"
    /\ (ImageEnded /\ csv[fi] = "full") =>
          /\ csvRows = results
          /\ Len(csvRows) = CountOk(Len(decodeLog))

(* C10 witness: the record loop raised after the annotated image was saved;
   the image has no record file. *)
C10_Witness ==
    /\ pc = "except"
    /\ failSite[fi] = "records"
    /\ annotated[fi]
    /\ csv[fi] = "none"

====
